---- MODULE Spec2Model ----
(***************************************************************************)
(* Model of src/utils/dataload.py: load_data, rays_dataset and the         *)
(* RayGenerator class (construction and select).                           *)
(*                                                                         *)
(* Real numbers (Python floats, float32 tensor entries) are modelled as    *)
(* exact rationals <<n, d>> in lowest terms with d >= 0; d = 0 stands for  *)
(* an infinity (numpy's result of dividing a non-zero number by 0.0).      *)
(* A matrix is a sequence of rows, a 3-d tensor a sequence of matrices.    *)
(* An operation that raises in Python returns a record whose field         *)
(* "raises" names the exception; "none" means it returned normally.        *)
(***************************************************************************)
EXTENDS Integers, Sequences, FiniteSets, TLC

\* Bounds of the explored inputs.
MaxImages == 2
MaxN == 2

VARIABLES fs, pc, err, self_samples, self_cam_params, self_rays_dataset, ret

vars == <<fs, pc, err, self_samples, self_cam_params, self_rays_dataset, ret>>

\* The three dataset partitions, and the order in which rays_dataset walks them.
Splits == {"train", "test", "val"}
keys == <<"train", "test", "val">>

-----------------------------------------------------------------------------
\* Exact arithmetic standing for the floating-point arithmetic of the code.

Abs(x) == IF x < 0 THEN -x ELSE x

Sgn(x) == IF x < 0 THEN -1 ELSE IF x = 0 THEN 0 ELSE 1

RECURSIVE GCD(_, _)
GCD(a, b) == IF b = 0 THEN a ELSE GCD(b, a % b)

\* n/d in lowest terms; n/0 is the infinity of n's sign.
Rat(n, d) ==
    IF d = 0 THEN <<Sgn(n), 0>>
    ELSE LET g == GCD(Abs(n), Abs(d))
         IN  <<(Sgn(d) * n) \div g, Abs(d) \div g>>

FromInt(k) == <<k, 1>>

RAdd(a, b) == Rat(a[1] * b[2] + b[1] * a[2], a[2] * b[2])

RMul(a, b) == Rat(a[1] * b[1], a[2] * b[2])

\* a / b as IEEE division gives it for the operands that occur here:
\* finite / 0 is an infinity, finite / infinity is 0.
RDiv(a, b) == IF b[2] = 0 THEN FromInt(0) ELSE Rat(a[1] * b[2], a[2] * b[1])

RNeg(a) == <<-a[1], a[2]>>

IsFinite(a) == a[2] # 0

-----------------------------------------------------------------------------
\* Tensor operations of numpy / torch used by the code.

NRows(M) == Len(M)

NCols(M) == IF Len(M) = 0 THEN 0 ELSE Len(M[1])

Min(a, b) == IF a < b THEN a ELSE b

\* M[r0:r1, c0:c1] with Python's clipping of the slice ends.
Slice(M, r0, r1, c0, c1) ==
    LET rhi == Min(r1, NRows(M))
        chi == Min(c1, NCols(M))
        nr == IF rhi > r0 THEN rhi - r0 ELSE 0
        nc == IF chi > c0 THEN chi - c0 ELSE 0
    IN  [i \in 1..nr |-> [j \in 1..nc |-> M[r0 + i][c0 + j]]]

\* torch.from_numpy(np.array(m)).float() of a rectangular list of numbers.
ToFloat(m) == [i \in 1..Len(m) |-> [j \in 1..Len(m[i]) |-> FromInt(m[i][j])]]

RECURSIVE Dot(_, _, _)
\* sum over t in 1..n of a[t] * b[t]
Dot(a, b, n) == IF n = 0 THEN FromInt(0) ELSE RAdd(Dot(a, b, n - 1), RMul(a[n], b[n]))

\* The matrix product A (r x c) times M (c x n).
MatMul(A, M) ==
    [i \in 1..NRows(A) |->
        [p \in 1..NCols(M) |-> Dot(A[i], [t \in 1..NRows(M) |-> M[t][p]], NRows(M))]]

-----------------------------------------------------------------------------
\* The dataset directory: what load_data finds under `path`.
\*   img[k]     number of image files found for split k
\*   frames[k]  the 'transform_matrix' of each entry of transforms_<k>.json
\*   depth, normal   number of r_*_depth* and r_*_normal* files under test/
\*   shape      <<H, W>> of the decoded images
\*   fov        the 'camera_angle_x' entry of transforms_train.json

\* Pose contents: a rotation block (rows and columns 1..3), a translation
\* (column 4) and filler in row 4, row 5 and column 5, so that a matrix of
\* any shape up to 5 x 5 can be cut from it.  Pose 0 is the identity pose.
PoseBase(v) ==
    CASE v = 0 -> << <<1, 0, 0, 0, 7>>,
                     <<0, 1, 0, 0, 8>>,
                     <<0, 0, 1, 0, 9>>,
                     <<0, 0, 0, 1, 0>>,
                     <<5, 5, 5, 5, 5>> >>
      [] v = 1 -> << <<0, -1, 0, 1, 7>>,
                     <<1, 0, 0, 2, 8>>,
                     <<0, 0, 1, 3, 9>>,
                     <<0, 0, 0, 1, 0>>,
                     <<5, 5, 5, 5, 5>> >>
      [] OTHER -> << <<1, 0, 0, 4, 7>>,
                     <<0, 0, -1, 5, 8>>,
                     <<0, 1, 0, 6, 9>>,
                     <<0, 0, 0, 1, 0>>,
                     <<5, 5, 5, 5, 5>> >>

\* The pose held by the k-th frame of a description: 1, 0, 2, 1, 0, 2, ...
PoseOrder == <<1, 0, 2>>

MakePose(sh, v) == [i \in 1..sh[1] |-> [j \in 1..sh[2] |-> PoseBase(v)[i][j]]]

\* Shapes a 'transform_matrix' may have in a description file.
PoseShapes == {<<4, 4>>, <<3, 4>>, <<5, 4>>, <<3, 5>>, <<4, 5>>,
               <<1, 4>>, <<2, 4>>, <<4, 3>>}

OddShape(sh) == IF sh = <<4, 4>> THEN <<3, 4>> ELSE <<4, 4>>

\* m frames of shape sh; with `odd`, the last of two or more frames has
\* another shape than the rest.
FrameList(m, sh, odd) ==
    [k \in 1..m |->
        MakePose(IF odd /\ k = m /\ m >= 2 THEN OddShape(sh) ELSE sh,
                 PoseOrder[((k - 1) % Len(PoseOrder)) + 1])]

FrameLists ==
    {FrameList(m, sh, odd) :
        m \in 0..(MaxImages + 1), sh \in PoseShapes, odd \in BOOLEAN}

ImageShapes == {<<1, 1>>, <<1, 2>>, <<3, 1>>, <<2, 2>>}

\* 'camera_angle_x': absent, a string, or a number.  A number is kept with
\* the exact value of tan(fov/2): 0 for fov = 0, 1 for fov = pi/2,
\* -1 for fov = -pi/2, 1/2 for fov = 2*atan(1/2).
Fovs == {[kind |-> "missing", tan_half |-> <<0, 1>>],
         [kind |-> "string", tan_half |-> <<0, 1>>],
         [kind |-> "number", tan_half |-> <<0, 1>>],
         [kind |-> "number", tan_half |-> <<1, 1>>],
         [kind |-> "number", tan_half |-> <<-1, 1>>],
         [kind |-> "number", tan_half |-> <<1, 2>>]}

\* A well-formed dataset: one image per split, one 4 x 4 pose for each.
BaseFS ==
    [img |-> [k \in Splits |-> 1],
     frames |-> [k \in Splits |-> <<MakePose(<<4, 4>>, 1)>>],
     depth |-> 1,
     normal |-> 1,
     shape |-> <<2, 2>>,
     fov |-> [kind |-> "number", tan_half |-> <<1, 1>>]]

\* The datasets explored: BaseFS with one split's directory and description
\* replaced, or with another field of view, or with other counts of depth
\* and normal images; each with every image shape.
Datasets ==
    LET OneSplit ==
            {[BaseFS EXCEPT !.img[k] = n, !.frames[k] = fl,
                            !.depth = IF k = "test" THEN n ELSE 1,
                            !.normal = IF k = "test" THEN n ELSE 1] :
                k \in Splits, n \in 0..MaxImages, fl \in FrameLists}
        OneFov == {[BaseFS EXCEPT !.fov = v] : v \in Fovs}
        TestAux ==
            {[BaseFS EXCEPT !.img["test"] = n[1], !.depth = n[2], !.normal = n[3],
                            !.frames["test"] = FrameList(MaxImages, <<4, 4>>, FALSE)] :
                n \in (0..MaxImages) \X (0..MaxImages) \X (0..MaxImages)}
    IN  {[d EXCEPT !.shape = sh] :
            d \in OneSplit \cup OneFov \cup TestAux, sh \in ImageShapes}

-----------------------------------------------------------------------------
\* load_data(path)

\* The samples of split k: one per image file, paired with the description's
\* frame of the same index.
load_samples(d, k) ==
    [i \in 1..d.img[k] |->
        [img |-> d.shape, transform |-> ToFloat(d.frames[k][i]), metadata |-> i]]

\* f = W / (2 * np.tan(fov/2))
focal(W, fov) == RDiv(FromInt(W), RMul(FromInt(2), fov.tan_half))

\* The exception load_data raises on dataset d, in the order the code meets
\* them, or "none".
load_data_raises(d) ==
    IF d.img["train"] > Len(d.frames["train"]) THEN "IndexError"
    ELSE IF d.img["val"] > Len(d.frames["val"]) THEN "IndexError"
    ELSE IF d.img["test"] > Min(d.depth, Min(d.normal, Len(d.frames["test"])))
         THEN "IndexError"
    ELSE IF d.fov.kind = "missing" THEN "KeyError"
    ELSE IF d.img["test"] = 0 THEN "UnboundLocalError"
    ELSE IF d.fov.kind # "number" THEN "TypeError"
    ELSE "none"

load_data(d) ==
    IF load_data_raises(d) # "none"
    THEN [raises |-> load_data_raises(d),
          samples |-> [k \in Splits |-> <<>>], cam_params |-> <<>>]
    ELSE [raises |-> "none",
          samples |-> [k \in Splits |-> load_samples(d, k)],
          cam_params |-> <<d.shape[1], d.shape[2], focal(d.shape[2], d.fov)>>]

-----------------------------------------------------------------------------
\* rays_single_cam(cam_params), of utils/xyz.py: the 3 x (H*W) ray basis.
\* Column p (row-major, pixel row i = p div W, pixel column j = p mod W) is
\* ((j - W/2)/f, -(i - H/2)/f, -1).
rays_single_cam(cam_params) ==
    LET H == cam_params[1]
        W == cam_params[2]
        f == cam_params[3]
        x(p) == RDiv(Rat(2 * ((p - 1) % W) - W, 2), f)
        y(p) == RNeg(RDiv(Rat(2 * ((p - 1) \div W) - H, 2), f))
    IN  << [p \in 1..(H * W) |-> x(p)],
           [p \in 1..(H * W) |-> y(p)],
           [p \in 1..(H * W) |-> FromInt(-1)] >>

-----------------------------------------------------------------------------
\* rays_dataset(samples, cam_params)

\* torch.stack raises on an empty list and on tensors of unequal shapes.
stack_raises(ts) ==
    \/ Len(ts) = 0
    \/ \E a, b \in 1..Len(ts) : NRows(ts[a]) # NRows(ts[b]) \/ NCols(ts[a]) # NCols(ts[b])

\* Tensor.expand(B, rows, cols) of a B x r x c tensor raises unless each of
\* r and c either equals the requested size or is 1.
expand_raises(T, rows, cols) ==
    \/ ~(NRows(T[1]) = rows \/ NRows(T[1]) = 1)
    \/ ~(NCols(T[1]) = cols \/ NCols(T[1]) = 1)

expand(T, rows, cols) ==
    [b \in 1..Len(T) |->
        [i \in 1..rows |->
            [p \in 1..cols |->
                T[b][IF NRows(T[b]) = 1 THEN 1 ELSE i][IF NCols(T[b]) = 1 THEN 1 ELSE p]]]]

\* torch.cat((X, Y), dim=1) of B x r1 x n and B x r2 x n tensors.
cat1(X, Y) == [b \in 1..Len(X) |-> X[b] \o Y[b]]

\* Tensor.permute(1, 0, 2) of a B x r x n tensor: r x B x n.
permute102(T) == [i \in 1..NRows(T[1]) |-> [b \in 1..Len(T) |-> T[b][i]]]

\* The number of entries of a 3-d tensor and its entry at row-major offset o.
numel(T) == Len(T) * NRows(T[1]) * NCols(T[1])

flat_at(T, o) ==
    LET r == NRows(T[1])
        n == NCols(T[1])
    IN  T[(o \div (r * n)) + 1][((o \div n) % r) + 1][(o % n) + 1]

\* Tensor.reshape(6, -1) raises unless the number of entries is a multiple of 6.
reshape6_raises(T) == numel(T) % 6 # 0

reshape6(T) ==
    LET n == numel(T) \div 6
    IN  [q \in 1..6 |-> [c \in 1..n |-> flat_at(T, (q - 1) * n + (c - 1))]]

\* rays_of_split with every image's directions multiplied by the first
\* image's rotation instead of its own.
rays_of_split_first_rotation(S, rays_1_cam, H, W) ==
    LET ts == [b \in 1..Len(S) |-> S[b].transform]
        rot == [b \in 1..Len(ts) |-> Slice(ts[1], 0, 3, 0, 3)]
        org == [b \in 1..Len(ts) |-> Slice(ts[b], 0, 3, 3, NCols(ts[b]))]
        dirs == [b \in 1..Len(ts) |-> MatMul(rot[b], rays_1_cam)]
    IN  IF stack_raises(ts) THEN [raises |-> "RuntimeError", rays |-> <<>>]
        ELSE IF NCols(rot[1]) # NRows(rays_1_cam)
             THEN [raises |-> "RuntimeError", rays |-> <<>>]
        ELSE IF expand_raises(org, 3, H * W)
             THEN [raises |-> "RuntimeError", rays |-> <<>>]
        ELSE IF reshape6_raises(permute102(cat1(expand(org, 3, H * W), dirs)))
             THEN [raises |-> "RuntimeError", rays |-> <<>>]
        ELSE [raises |-> "none",
              rays |-> reshape6(permute102(cat1(expand(org, 3, H * W), dirs)))]

\* rays_of_split giving a split without images a pool of width 0 instead of
\* raising.
rays_of_split_skips_empty(S, rays_1_cam, H, W) ==
    LET ts == [b \in 1..Len(S) |-> S[b].transform]
        rot == [b \in 1..Len(ts) |-> Slice(ts[b], 0, 3, 0, 3)]
        org == [b \in 1..Len(ts) |-> Slice(ts[b], 0, 3, 3, NCols(ts[b]))]
        dirs == [b \in 1..Len(ts) |-> MatMul(rot[b], rays_1_cam)]
    IN  IF Len(S) = 0 THEN [raises |-> "none", rays |-> [q \in 1..6 |-> <<>>]]
        ELSE IF stack_raises(ts) THEN [raises |-> "RuntimeError", rays |-> <<>>]
        ELSE IF NCols(rot[1]) # NRows(rays_1_cam)
             THEN [raises |-> "RuntimeError", rays |-> <<>>]
        ELSE IF expand_raises(org, 3, H * W)
             THEN [raises |-> "RuntimeError", rays |-> <<>>]
        ELSE IF reshape6_raises(permute102(cat1(expand(org, 3, H * W), dirs)))
             THEN [raises |-> "RuntimeError", rays |-> <<>>]
        ELSE [raises |-> "none",
              rays |-> reshape6(permute102(cat1(expand(org, 3, H * W), dirs)))]

\* The body of the loop over keys for one split: its samples S, the ray
\* basis and the image size.
rays_of_split(S, rays_1_cam, H, W) ==
    LET ts == [b \in 1..Len(S) |-> S[b].transform]
        num_images == Len(S)
        rot == [b \in 1..Len(ts) |-> Slice(ts[b], 0, 3, 0, 3)]
        org == [b \in 1..Len(ts) |-> Slice(ts[b], 0, 3, 3, NCols(ts[b]))]
        dirs == [b \in 1..Len(ts) |-> MatMul(rot[b], rays_1_cam)]
    IN  IF stack_raises(ts) THEN [raises |-> "RuntimeError", rays |-> <<>>]
        ELSE IF NCols(rot[1]) # NRows(rays_1_cam)
             THEN [raises |-> "RuntimeError", rays |-> <<>>]
        ELSE IF expand_raises(org, 3, H * W)
             THEN [raises |-> "RuntimeError", rays |-> <<>>]
        ELSE IF reshape6_raises(permute102(cat1(expand(org, 3, H * W), dirs)))
             THEN [raises |-> "RuntimeError", rays |-> <<>>]
        ELSE [raises |-> "none",
              rays |-> reshape6(permute102(cat1(expand(org, 3, H * W), dirs)))]

rays_dataset(samples, cam_params) ==
    LET rays_1_cam == rays_single_cam(cam_params)
        H == cam_params[1]
        W == cam_params[2]
        r == [k \in Splits |-> rays_of_split(samples[k], rays_1_cam, H, W)]
    IN  IF \E i \in 1..Len(keys) : r[keys[i]].raises # "none"
        THEN [raises |-> "RuntimeError", rays |-> [k \in Splits |-> <<>>]]
        ELSE [raises |-> "none", rays |-> [k \in Splits |-> r[k].rays]]

-----------------------------------------------------------------------------
\* RayGenerator

NoCall == [mode |-> "", N |-> 0, raises |-> "nocall", rays |-> <<>>, ids |-> <<>>]

Init ==
    /\ fs \in Datasets
    /\ pc = "init"
    /\ err = "none"
    /\ self_samples = [k \in Splits |-> <<>>]
    /\ self_cam_params = <<>>
    /\ self_rays_dataset = [k \in Splits |-> <<>>]
    /\ ret = NoCall

\* RayGenerator.__init__(path): an exception of load_data or rays_dataset
\* leaves the caller without an engine.
RayGenerator_init ==
    /\ pc = "init"
    /\ LET ld == load_data(fs)
           rd == rays_dataset(ld.samples, ld.cam_params)
       IN  IF ld.raises # "none"
           THEN /\ pc' = "failed"
                /\ err' = ld.raises
                /\ UNCHANGED <<self_samples, self_cam_params, self_rays_dataset>>
           ELSE IF rd.raises # "none"
           THEN /\ pc' = "failed"
                /\ err' = rd.raises
                /\ UNCHANGED <<self_samples, self_cam_params, self_rays_dataset>>
           ELSE /\ pc' = "ready"
                /\ err' = "none"
                /\ self_samples' = ld.samples
                /\ self_cam_params' = ld.cam_params
                /\ self_rays_dataset' = rd.rays
    /\ UNCHANGED <<fs, ret>>

\* select_data falling back to the default split for an unknown name.
select_data_default_train(mode) ==
    IF mode \in DOMAIN self_rays_dataset
    THEN [raises |-> "none", data |-> self_rays_dataset[mode]]
    ELSE [raises |-> "none", data |-> self_rays_dataset["train"]]

\* self.rays_dataset[mode]: a KeyError for a key the dictionary does not hold.
select_data(mode) ==
    IF mode \in DOMAIN self_rays_dataset
    THEN [raises |-> "none", data |-> self_rays_dataset[mode]]
    ELSE [raises |-> "KeyError", data |-> <<>>]

\* randint_raises taking a negative size for an empty one.
randint_raises_accepts_negative(low, high, n) == high <= low

\* torch.randint(low, high, (n,)) raises for a negative size and for an
\* empty range; otherwise it returns any n values of low..high-1.
randint_raises(low, high, n) == n < 0 \/ high <= low

randint(low, high, n) == [1..n -> low..(high - 1)]

\* select_rays without the transposition: 6 rows of N values.
select_rays_not_transposed(data, ray_ids) ==
    [q \in 1..NRows(data) |-> [k \in 1..Len(ray_ids) |-> data[q][ray_ids[k] + 1]]]

\* data[:, ray_ids].transpose(1, 0)
select_rays(data, ray_ids) ==
    [k \in 1..Len(ray_ids) |-> [q \in 1..NRows(data) |-> data[q][ray_ids[k] + 1]]]

\* select storing the split's samples in the engine (self.samples in place
\* of the local name samples).
select_overwrites_samples(mode, N) ==
    /\ pc = "ready"
    /\ LET got == select_data(mode)
       IN  IF got.raises # "none"
           THEN /\ ret' = [mode |-> mode, N |-> N, raises |-> got.raises,
                           rays |-> <<>>, ids |-> <<>>]
                /\ UNCHANGED self_samples
           ELSE /\ self_samples' = self_samples[mode]
                /\ IF randint_raises(0, NCols(got.data), N)
                   THEN ret' = [mode |-> mode, N |-> N, raises |-> "RuntimeError",
                                rays |-> <<>>, ids |-> <<>>]
                   ELSE \E ray_ids \in randint(0, NCols(got.data), N) :
                            ret' = [mode |-> mode, N |-> N, raises |-> "none",
                                    rays |-> select_rays(got.data, ray_ids),
                                    ids |-> ray_ids]
    /\ pc' = "returned"
    /\ UNCHANGED <<fs, err, self_cam_params, self_rays_dataset>>

select(mode, N) ==
    /\ pc = "ready"
    /\ LET got == select_data(mode)
       IN  IF got.raises # "none"
           THEN ret' = [mode |-> mode, N |-> N, raises |-> got.raises,
                        rays |-> <<>>, ids |-> <<>>]
           ELSE IF randint_raises(0, NCols(got.data), N)
           THEN ret' = [mode |-> mode, N |-> N, raises |-> "RuntimeError",
                        rays |-> <<>>, ids |-> <<>>]
           ELSE \E ray_ids \in randint(0, NCols(got.data), N) :
                    ret' = [mode |-> mode, N |-> N, raises |-> "none",
                            rays |-> select_rays(got.data, ray_ids), ids |-> ray_ids]
    /\ pc' = "returned"
    /\ UNCHANGED <<fs, err, self_samples, self_cam_params, self_rays_dataset>>

\* The caller takes what select returned or raised and goes on; the engine
\* is ready for the next call.
caller_resumes ==
    /\ pc = "returned"
    /\ pc' = "ready"
    /\ ret' = NoCall
    /\ UNCHANGED <<fs, err, self_samples, self_cam_params, self_rays_dataset>>

\* The arguments select is called with: the three splits and a name that is
\* none of them; sizes from -1 to MaxN.
Modes == Splits \cup {"all"}

Next ==
    \/ RayGenerator_init
    \/ \E mode \in Modes, N \in -1..MaxN : select(mode, N)
    \/ caller_resumes

Spec == Init /\ [][Next]_vars

-----------------------------------------------------------------------------
\* Properties.

\* An engine exists: construction returned normally.
Built == pc \in {"ready", "returned"}

ImgH == self_cam_params[1]

ImgW == self_cam_params[2]

PoolWidth(k) == NCols(self_rays_dataset[k])

\* Image b's transform as the description file of split k gives it.
TransformOf(k, b) == ToFloat(fs.frames[k][b])

\* A transform that is a 3 x 4 matrix, or a 4 x 4 one to be cut to 3 x 4.
IsPoseShaped(t) == NCols(t) = 4 /\ NRows(t) \in {3, 4}

IsIdentityPose(t) ==
    /\ IsPoseShaped(t)
    /\ \A q \in 1..3, c \in 1..4 : t[q][c] = FromInt(IF q = c THEN 1 ELSE 0)

\* R times the 3-vector c, for the rotation block R of transform t.
Rotated(t, c) ==
    [q \in 1..3 |->
        RAdd(RAdd(RMul(t[q][1], c[1]), RMul(t[q][2], c[2])), RMul(t[q][3], c[3]))]

\* Column p of a matrix of 3 rows.
Column3(M, p) == [q \in 1..3 |-> M[q][p]]

PoolColumn(k, c, rows) == [q \in 1..3 |-> self_rays_dataset[k][rows + q][c]]

\* C1: in a constructed engine every split's pool has 6 rows and B*H*W
\* columns, and rows 0..2 of column b*H*W + p hold entries [0:3, 3] of image
\* b's transform, for every image b and pixel p.
\* (Stated for the splits whose transforms all have entries [0:3, 3].)
C1_OriginLayout ==
    Built =>
        \A k \in Splits :
            (\A b \in 1..fs.img[k] :
                NRows(TransformOf(k, b)) >= 3 /\ NCols(TransformOf(k, b)) >= 4) =>
                    /\ NRows(self_rays_dataset[k]) = 6
                    /\ PoolWidth(k) = fs.img[k] * ImgH * ImgW
                    /\ \A b \in 1..fs.img[k], p \in 1..(ImgH * ImgW) :
                         PoolColumn(k, (b - 1) * ImgH * ImgW + p, 0)
                            = Column3(TransformOf(k, b), 4)

\* C2: rows 3..5 of pool column b*H*W + p are R_b times column p of the ray
\* basis, R_b being the 3 x 3 rotation block of image b's own transform; for
\* an identity pose they are the basis column itself and rows 0..2 are zero.
\* (Stated for the images whose transform has a 3 x 3 rotation block, and
\* evaluated whenever the engine is idle: after construction and after each
\* call has returned.)
C2_OwnRotation ==
    pc = "ready" =>
        LET basis == rays_single_cam(self_cam_params)
        IN  \A k \in Splits : \A b \in 1..fs.img[k] :
                LET t == TransformOf(k, b)
                IN  (NRows(t) >= 3 /\ NCols(t) >= 3) =>
                        \A p \in 1..(ImgH * ImgW) :
                            LET c == (b - 1) * ImgH * ImgW + p
                            IN  /\ c <= PoolWidth(k)
                                /\ PoolColumn(k, c, 3) = Rotated(t, Column3(basis, p))
                                /\ IsIdentityPose(t) =>
                                     /\ PoolColumn(k, c, 3) = Column3(basis, p)
                                     /\ PoolColumn(k, c, 0) = [q \in 1..3 |-> FromInt(0)]

\* A split of two images with different rotations, the second the identity.
C2_Witness ==
    /\ pc = "ready"
    /\ \E k \in Splits :
         /\ fs.img[k] = 2
         /\ fs.frames[k][1] = MakePose(<<4, 4>>, 1)
         /\ IsIdentityPose(TransformOf(k, 2))
         /\ ImgH * ImgW > 1

\* C3: select on a valid split with N >= 0 returns normally, with N rows of
\* 6 values and N ids in [0, poolWidth); row k is pool column ids[k].
C3_SelectResult ==
    (pc = "returned" /\ ret.mode \in Splits /\ ret.N >= 0) =>
        /\ ret.raises = "none"
        /\ Len(ret.rays) = ret.N
        /\ Len(ret.ids) = ret.N
        /\ \A k \in 1..ret.N :
             /\ ret.ids[k] \in 0..(PoolWidth(ret.mode) - 1)
             /\ Len(ret.rays[k]) = 6
             /\ \A q \in 1..6 :
                  ret.rays[k][q] = self_rays_dataset[ret.mode][q][ret.ids[k] + 1]

\* More rays asked for than the pool holds, and an id drawn twice.
C3_Witness ==
    /\ pc = "returned"
    /\ ret.raises = "none"
    /\ ret.mode \in Splits
    /\ ret.N > PoolWidth(ret.mode)
    /\ \E i, j \in 1..ret.N : i # j /\ ret.ids[i] = ret.ids[j]

\* C4: when a split's image count differs from its description's frame
\* count, in either direction, construction fails and builds no pool.
C4_CountMismatchFails ==
    (pc # "init" /\ \E k \in Splits : fs.img[k] # Len(fs.frames[k])) =>
        /\ pc = "failed"
        /\ \A k \in Splits : self_rays_dataset[k] = <<>>

\* C5: select with a name that is no split raises, returns no rays and no
\* ids, and leaves pools, samples and camera parameters as they were.
C5_InvalidSplitRaises ==
    [][(pc = "ready" /\ pc' = "returned" /\ ret'.mode \notin Splits) =>
            /\ ret'.raises \notin {"none", "nocall"}
            /\ ret'.rays = <<>>
            /\ ret'.ids = <<>>
            /\ UNCHANGED <<self_samples, self_cam_params, self_rays_dataset>>]_vars

C5_Witness == pc = "returned" /\ ret.mode = "all" /\ ret.raises = "KeyError"

\* C6: when the transform of some image is not a 3 x 4 or 4 x 4 matrix, or
\* differs in shape from the other transforms of its split, construction
\* fails.
C6_MalformedPoseFails ==
    (/\ pc # "init"
     /\ \E k \in Splits : \E b \in 1..Min(fs.img[k], Len(fs.frames[k])) :
           \/ ~IsPoseShaped(TransformOf(k, b))
           \/ \E a \in 1..Min(fs.img[k], Len(fs.frames[k])) :
                \/ NRows(TransformOf(k, a)) # NRows(TransformOf(k, b))
                \/ NCols(TransformOf(k, a)) # NCols(TransformOf(k, b)))
        => pc = "failed"

\* C7: a missing or malformed field of view, or a tan(fov/2) that is zero
\* or negative, makes construction fail; the H, W and f of a constructed
\* engine are positive and finite.
C7_IntrinsicsChecked ==
    /\ (pc # "init" /\ (fs.fov.kind # "number" \/ fs.fov.tan_half[1] <= 0))
            => pc = "failed"
    /\ Built =>
            /\ ImgH > 0
            /\ ImgW > 0
            /\ IsFinite(self_cam_params[3])
            /\ self_cam_params[3][1] > 0

\* C8: once the engine is constructed, no step changes its pools, samples
\* or camera parameters.
C8_EngineReadOnly ==
    [][Built => UNCHANGED <<self_samples, self_cam_params, self_rays_dataset>>]_vars

\* A call that returned rays has been made on a constructed engine.
C8_Witness == pc = "returned" /\ ret.raises = "none" /\ ret.N = MaxN

\* C9: select with a negative N on a valid split raises and returns no rays
\* and no ids.
C9_NegativeNRaises ==
    (pc = "returned" /\ ret.mode \in Splits /\ ret.N < 0) =>
        /\ ret.raises \notin {"none", "nocall"}
        /\ ret.rays = <<>>
        /\ ret.ids = <<>>

C9_Witness ==
    pc = "returned" /\ ret.mode = "val" /\ ret.N = -1 /\ ret.raises = "RuntimeError"

\* C10: construction fails when a split has no image; every pool of a
\* constructed engine has at least one column.
C10_NoEmptySplit ==
    /\ (pc # "init" /\ \E k \in Splits : fs.img[k] = 0) => pc = "failed"
    /\ Built => \A k \in Splits : fs.img[k] >= 1 /\ PoolWidth(k) >= 1

\* Construction was tried on a dataset with an empty train split and one
\* image in each other split; rays_dataset refused it.
C10_Witness ==
    /\ pc = "failed"
    /\ err = "RuntimeError"
    /\ fs.img["train"] = 0
    /\ fs.img["test"] = 1
    /\ fs.img["val"] = 1

====
